---- MODULE Spec2Model ----
(***************************************************************************)
(* storyboard_tool.js: one run of main().  Strings are sequences of        *)
(* one-character strings, so that substitution, fence extraction, trimming *)
(* and identifier generation are computed character by character.          *)
(* File contents are strings; the file system holds the files this run     *)
(* writes below the output directory (the directory starts out empty).     *)
(***************************************************************************)
EXTENDS Integers, Sequences, FiniteSets, TLC

VARIABLES
    pc,            \* position of main(): "start", "args", ..., "exited"
    exitCode,      \* <<status>> once the process has exited, <<>> before
    err,           \* message key of the Error that ended the run, "" if none
    usage,         \* TRUE once parseArgs has printed the usage line
    argv,          \* process.argv.slice(2)
    input, output, \* the values parseArgs returns (<<>> is null)
    apiKeySet,     \* process.env.OPENAI_API_KEY is a non-empty string
    yamlLib,       \* require('js-yaml') succeeded at load time
    networkCalls,  \* number of fetch() requests issued
    httpStatus,    \* status of the response, 0 before any response
    research,      \* text read from the input file
    prompt,        \* MASTER_PROMPT with the research substituted
    responseText,  \* choices[0].message.content
    yamlStr, jsonStr, summary,   \* what extractBlocks returned
    jsonObj,       \* JSON.parse(jsonStr)
    warnings,      \* keys of the console.warn lines printed
    dirs,          \* directories created by mkdirSync
    fs,            \* path -> content of every file written
    runs           \* how many times the artifact emitter has run on fs

vars == << pc, exitCode, err, usage, argv, input, output, apiKeySet, yamlLib,
           networkCalls, httpStatus, research, prompt, responseText, yamlStr,
           jsonStr, summary, jsonObj, warnings, dirs, fs, runs >>

----------------------------------------------------------------------------
(* Bounds of the model.                                                    *)

MaxResearch == 2    \* pieces of a research text
MaxInner    == 3
MaxIdLen    == 3    \* characters of meta.videoId
MaxSlides   == 2    \* slides of a storyboard
MaxDur      == 2    \* largest slide durationSec
MaxTotal    == 3    \* largest meta.totalDurationSec
MaxArgs     == 4    \* arguments of a command line
MaxRuns     == 2    \* runs of the artifact emitter on one output directory

----------------------------------------------------------------------------
(* Strings.                                                                *)

RECURSIVE Flatten(_)
Flatten(ss) == IF ss = <<>> THEN <<>> ELSE Head(ss) \o Flatten(Tail(ss))

\* All sequences over S of length at most n.
SeqsUpTo(S, n) == UNION { [1..k -> S] : k \in 0..n }

\* s.startsWith(t, i) with i counted from 1.
StartsAt(s, t, i) ==
    /\ i >= 1
    /\ i + Len(t) - 1 <= Len(s)
    /\ \A k \in 1..Len(t) : s[i + k - 1] = t[k]

\* Positions at which t occurs in s.
Occurrences(s, t) == { i \in 1..(Len(s) + 1) : StartsAt(s, t, i) }

\* s.indexOf(t, from): the first position >= from at which t occurs, 0 if none.
IndexOf(s, t, from) ==
    LET hits == { i \in Occurrences(s, t) : i >= from }
    IN  IF hits = {} THEN 0 ELSE CHOOSE i \in hits : \A j \in hits : i <= j

\* s.slice(i - 1, j): characters i..j, empty when j < i.
Slice(s, i, j) == IF j < i THEN <<>> ELSE SubSeq(s, i, j)

\* White space and line terminators in the sense of String.prototype.trim.
WhiteSpace == {" ", "\n", "\t", "\r"}

\* The line terminators that a regular expression's "." does not match.
LineTerminators == {"\n", "\r"}

RECURSIVE TrimStart(_)
TrimStart(s) ==
    IF s # <<>> /\ Head(s) \in WhiteSpace THEN TrimStart(Tail(s)) ELSE s

RECURSIVE TrimEnd(_)
TrimEnd(s) ==
    IF s # <<>> /\ s[Len(s)] \in WhiteSpace
    THEN TrimEnd(SubSeq(s, 1, Len(s) - 1))
    ELSE s

\* String.prototype.trim
Trim(s) == TrimEnd(TrimStart(s))

LowerCase == {"a","b","c","d","e","f","g","h","i","j","k","l","m",
              "n","o","p","q","r","s","t","u","v","w","x","y","z"}
UpperCase == {"A","B","C","D","E","F","G","H","I","J","K","L","M",
              "N","O","P","Q","R","S","T","U","V","W","X","Y","Z"}
Digits    == {"0","1","2","3","4","5","6","7","8","9"}
Letters   == LowerCase \cup UpperCase
AlphaNum  == Letters \cup Digits

LowerSeq == <<"a","b","c","d","e","f","g","h","i","j","k","l","m",
              "n","o","p","q","r","s","t","u","v","w","x","y","z">>
UpperSeq == <<"A","B","C","D","E","F","G","H","I","J","K","L","M",
              "N","O","P","Q","R","S","T","U","V","W","X","Y","Z">>

\* The grave accent (the character of a code fence) and the apostrophe are
\* written by name: a TLA+ string cannot hold the former.
BACKTICK   == "GRAVE"
APOSTROPHE == "APOSTROPHE"

\* String.prototype.toUpperCase on one character.
ToUpperCase(c) ==
    IF c \in LowerCase
    THEN UpperSeq[CHOOSE k \in 1..Len(LowerSeq) : LowerSeq[k] = c]
    ELSE c

----------------------------------------------------------------------------
(* The master prompt and its composition (main, line 356).                 *)

PLACEHOLDER ==
    <<"<", "<", "P", "A", "S", "T", "E", " ", "F", "U", "L", "L", " ",
      "R", "E", "S", "E", "A", "R", "C", "H", " ", "T", "E", "X", "T", " ",
      "H", "E", "R", "E", ">", ">">>

\* The instruction lines of the prompt hold neither "$" nor the placeholder;
\* the line 'Tasks:' stands for them.  The last three lines are verbatim.
MASTER_PROMPT ==
    <<"T", "a", "s", "k", "s", ":", "\n">>
    \o <<"<", "<", "<", "R", "E", "S", "E", "A", "R", "C", "H", ">", ">", ">", "\n">>
    \o PLACEHOLDER
    \o <<"\n", "<", "<", "<", "E", "N", "D", ">", ">", ">">>

\* GetSubstitution of String.prototype.replace for a string pattern: in the
\* replacement text a dollar sign followed by a dollar sign is one dollar
\* sign, followed by an ampersand the matched text, followed by a backtick
\* the text before the match, followed by an apostrophe the text after it;
\* any other dollar sign stands for itself.
RECURSIVE GetSubstitution(_, _, _, _)
GetSubstitution(matched, before, after, repl) ==
    IF repl = <<>> THEN <<>>
    ELSE IF Head(repl) = "$" /\ Len(repl) >= 2 /\ repl[2] \in {"$", "&", BACKTICK, APOSTROPHE}
    THEN (CASE repl[2] = "$" -> <<"$">>
            [] repl[2] = "&" -> matched
            [] repl[2] = BACKTICK -> before
            [] repl[2] = APOSTROPHE -> after)
         \o GetSubstitution(matched, before, after, SubSeq(repl, 3, Len(repl)))
    ELSE <<Head(repl)>> \o GetSubstitution(matched, before, after, Tail(repl))

\* String.prototype.replace(pattern, replacement), both strings: the first
\* occurrence of the pattern is replaced by the expanded replacement.
StringReplace(s, pattern, repl) ==
    LET at == IndexOf(s, pattern, 1)
    IN  IF at = 0 THEN s
        ELSE LET before == Slice(s, 1, at - 1)
                 after  == Slice(s, at + Len(pattern), Len(s))
             IN  before \o GetSubstitution(pattern, before, after, repl) \o after

ComposePrompt(text) == StringReplace(MASTER_PROMPT, PLACEHOLDER, text)

----------------------------------------------------------------------------
(* extractBlocks (lines 165-183).                                          *)

FENCE     == <<BACKTICK, BACKTICK, BACKTICK>>
YAML_OPEN == FENCE \o <<"y", "a", "m", "l", "\n">>
JSON_OPEN == FENCE \o <<"j", "s", "o", "n", "\n">>

\* The closing fence of the block whose opening tag is at position i: the
\* lazy capture group takes at least one character and stops at the first
\* closing fence after it.  0 when nothing closes the block.
CloseAfter(s, open, i) == IndexOf(s, FENCE, i + Len(open) + 1)

\* FenceMatch with a greedy capture group: the block runs to the last fence.
FenceMatchGreedy(s, open) ==
    LET starts == { i \in Occurrences(s, open) : CloseAfter(s, open, i) # 0 }
    IN  IF starts = {} THEN [found |-> FALSE, index |-> 0, group |-> <<>>, end |-> 0]
        ELSE LET i == CHOOSE x \in starts : \A y \in starts : x <= y
                 j == CHOOSE x \in Occurrences(s, FENCE) :
                         \A y \in Occurrences(s, FENCE) : y <= x
             IN  [found |-> TRUE,
                  index |-> i,
                  group |-> Slice(s, i + Len(open), j - 1),
                  end   |-> j + Len(FENCE) - 1]

\* String.prototype.match with the fence expression of an opening tag: the
\* leftmost position at which the expression matches, with its capture group.
FenceMatch(s, open) ==
    LET starts == { i \in Occurrences(s, open) : CloseAfter(s, open, i) # 0 }
    IN  IF starts = {} THEN [found |-> FALSE, index |-> 0, group |-> <<>>, end |-> 0]
        ELSE LET i == CHOOSE x \in starts : \A y \in starts : x <= y
                 j == CloseAfter(s, open, i)
             IN  [found |-> TRUE,
                  index |-> i,
                  group |-> Slice(s, i + Len(open), j - 1),
                  end   |-> j + Len(FENCE) - 1]

\* extractBlocks without the check of jsonMatch: a reply without a JSON block
\* yields an empty JSON text.
extractBlocksNoJsonCheck(response) ==
    LET yamlMatch == FenceMatch(response, YAML_OPEN)
        jsonMatch == FenceMatch(response, JSON_OPEN)
    IN  IF ~yamlMatch.found
        THEN [error |-> "Unable to find YAML block in response",
              yaml |-> <<>>, json |-> <<>>, summary |-> <<>>]
        ELSE [error   |-> "",
              yaml    |-> Trim(yamlMatch.group),
              json    |-> Trim(jsonMatch.group),
              summary |-> Trim(Slice(response, jsonMatch.end + 1, Len(response)))]

\* The record extractBlocks returns; error is the message key of the Error it
\* throws instead, "" when it returns.
extractBlocks(response) ==
    LET yamlMatch == FenceMatch(response, YAML_OPEN)
        jsonMatch == FenceMatch(response, JSON_OPEN)
    IN  IF ~yamlMatch.found
        THEN [error |-> "Unable to find YAML block in response",
              yaml |-> <<>>, json |-> <<>>, summary |-> <<>>]
        ELSE IF ~jsonMatch.found
        THEN [error |-> "Unable to find JSON block in response",
              yaml |-> <<>>, json |-> <<>>, summary |-> <<>>]
        ELSE [error   |-> "",
              yaml    |-> Trim(yamlMatch.group),
              json    |-> Trim(jsonMatch.group),
              summary |-> Trim(Slice(response, jsonMatch.end + 1, Len(response)))]

----------------------------------------------------------------------------
(* camelCase (lines 318-323).                                              *)

\* Length of the run of non-alphanumeric characters that starts at i.
RECURSIVE RunLength(_, _)
RunLength(s, i) ==
    IF i > Len(s) \/ s[i] \in AlphaNum THEN 0 ELSE 1 + RunLength(s, i + 1)

\* The separator expression (a greedy run of non-alphanumerics, then any one
\* character) tried at position i: the run gives characters
\* back until a character that "." matches follows it.  The result is the
\* number of characters the run keeps, 0 when the expression does not match.
SeparatorMatch(s, i) ==
    LET ks == { k \in 1..RunLength(s, i) :
                  i + k <= Len(s) /\ s[i + k] \notin LineTerminators }
    IN  IF ks = {} THEN 0 ELSE CHOOSE k \in ks : \A m \in ks : m <= k

\* The first replace of camelCase, global, from position i on: each match is
\* replaced by its captured character in upper case.
RECURSIVE ReplaceSeparators(_, _)
ReplaceSeparators(s, i) ==
    IF i > Len(s) THEN <<>>
    ELSE LET k == SeparatorMatch(s, i)
         IN  IF k = 0
             THEN <<s[i]>> \o ReplaceSeparators(s, i + 1)
             ELSE <<ToUpperCase(s[i + k])>> \o ReplaceSeparators(s, i + k + 1)

\* The second replace of camelCase: leading non-letters are removed.
RECURSIVE StripLeadingNonLetters(_)
StripLeadingNonLetters(s) ==
    IF s # <<>> /\ Head(s) \notin Letters
    THEN StripLeadingNonLetters(Tail(s))
    ELSE s

\* The third replace of camelCase: the first character, unless it is a line
\* terminator, is upper-cased.
UpperFirst(s) ==
    IF s # <<>> /\ Head(s) \notin LineTerminators
    THEN <<ToUpperCase(Head(s))>> \o Tail(s)
    ELSE s

camelCase(str) == UpperFirst(StripLeadingNonLetters(ReplaceSeparators(str, 1)))

----------------------------------------------------------------------------
(* parseArgs (lines 97-115).                                               *)

\* The for loop from index i on: input and output are <<>> (null) or <<value>>.
RECURSIVE ParseLoop(_, _, _, _)
ParseLoop(args, i, inp, out) ==
    IF i > Len(args) THEN [help |-> FALSE, input |-> inp, output |-> out]
    ELSE IF args[i] = "--input" /\ i + 1 <= Len(args)
    THEN ParseLoop(args, i + 2, <<args[i + 1]>>, out)
    ELSE IF args[i] = "--output" /\ i + 1 <= Len(args)
    THEN ParseLoop(args, i + 2, inp, <<args[i + 1]>>)
    ELSE IF args[i] \in {"--help", "-h"}
    THEN [help |-> TRUE, input |-> inp, output |-> out]
    ELSE ParseLoop(args, i + 1, inp, out)

\* parseArgs with the two missing-argument tests made before the help flag
\* is honoured.
parseArgsValidateFirst(args) ==
    LET r == ParseLoop(args, 1, <<>>, <<>>)
        missing(v) == v = <<>> \/ v = <<"">>
        scanned == IF r.help THEN ParseLoop(SelectSeq(args, LAMBDA a : a \notin {"--help", "-h"}),
                                            1, <<>>, <<>>)
                   ELSE r
    IN  IF missing(scanned.input)
        THEN [exit |-> "throw", error |-> "Missing --input argument",
              input |-> <<>>, output |-> <<>>]
        ELSE IF missing(scanned.output)
        THEN [exit |-> "throw", error |-> "Missing --output argument",
              input |-> <<>>, output |-> <<>>]
        ELSE IF r.help
        THEN [exit |-> "usage", error |-> "", input |-> <<>>, output |-> <<>>]
        ELSE [exit |-> "", error |-> "", input |-> r.input, output |-> r.output]

\* The outcome of parseArgs: the usage exit, an Error, or the two values.
parseArgs(args) ==
    LET r == ParseLoop(args, 1, <<>>, <<>>)
        missing(v) == v = <<>> \/ v = <<"">>
    IN  IF r.help THEN [exit |-> "usage", error |-> "", input |-> <<>>, output |-> <<>>]
        ELSE IF missing(r.input)
        THEN [exit |-> "throw", error |-> "Missing --input argument",
              input |-> <<>>, output |-> <<>>]
        ELSE IF missing(r.output)
        THEN [exit |-> "throw", error |-> "Missing --output argument",
              input |-> <<>>, output |-> <<>>]
        ELSE [exit |-> "", error |-> "", input |-> r.input, output |-> r.output]

----------------------------------------------------------------------------
(* The parsed storyboard.  An optional field is <<>> when absent and       *)
(* <<value>> when present; videoId is a string, empty when absent.         *)

SlideIds == {"intro", "outro"}
Slide    == [id : SlideIds, durationSec : 1..MaxDur]

Meta(videoIds) ==
    [totalDurationSec : {<<>>} \cup { <<n>> : n \in 0..MaxTotal },
     videoId          : videoIds]

JsonNone  == [kind |-> "none",  meta |-> <<>>, slides |-> <<>>]
JsonError == [kind |-> "error", meta |-> <<>>, slides |-> <<>>]
JsonNull  == [kind |-> "null",  meta |-> <<>>, slides |-> <<>>]

\* The values JSON.parse can return: null, or an object whose meta and
\* slides fields are present or not.
Storyboards(videoIds, slideLists) ==
    {JsonNull} \cup
    [kind   : {"object"},
     meta   : {<<>>} \cup { <<m>> : m \in Meta(videoIds) },
     slides : {<<>>} \cup { <<ss>> : ss \in slideLists }]

\* What yaml.load does with the YAML text: it throws, returns a falsy value,
\* or returns a value that normalises to the same JSON as jsonObj or not.
YamlOutcomes == {"throws", "falsy", "equal", "differs"}

----------------------------------------------------------------------------
(* validateStoryboard (lines 196-231).                                     *)

RECURSIVE SumDurations(_)
SumDurations(slides) ==
    IF slides = <<>> THEN 0
    ELSE Head(slides).durationSec + SumDurations(Tail(slides))

\* Lines 224-229: whether the duration warning is printed.
DurationWarning(obj) ==
    /\ obj.meta # <<>>
    /\ obj.slides # <<>>
    /\ LET total    == SumDurations(obj.slides[1])
           declared == obj.meta[1].totalDurationSec
       IN  /\ declared # <<>>
           /\ declared[1] # 0
           /\ total # declared[1]

\* Lines 198-206: the warning of the YAML step.
YamlWarnings(lib, yo) ==
    IF ~lib THEN {"YAML parsing disabled"}
    ELSE IF yo = "throws" THEN {"Failed to parse YAML"}
    ELSE {}

\* Line 213: yamlObj is truthy.
YamlTruthy(lib, yo, obj) ==
    lib /\ (yo = "differs" \/ (yo = "equal" /\ obj.kind = "object"))

\* Lines 213-222: the warning of the structural comparison.
DifferWarnings(lib, yo, obj) ==
    IF YamlTruthy(lib, yo, obj) /\ yo = "differs"
    THEN {"YAML and JSON differ after normalisation"}
    ELSE {}

\* validateStoryboard with the duration mismatch thrown instead of printed.
validateStoryboardStrict(lib, yo, jo) ==
    IF jo.kind = "error"
    THEN [error    |-> "Invalid JSON returned by OpenAI",
          warnings |-> YamlWarnings(lib, yo)]
    ELSE IF jo.kind = "null"
    THEN [error    |-> "TypeError",
          warnings |-> YamlWarnings(lib, yo) \cup DifferWarnings(lib, yo, jo)]
    ELSE [error    |-> IF DurationWarning(jo)
                       THEN "totalDurationSec does not match" ELSE "",
          warnings |-> YamlWarnings(lib, yo) \cup DifferWarnings(lib, yo, jo)]

\* The outcome of validateStoryboard: the warnings printed, and the Error
\* thrown ("" when it returns jsonObj).
validateStoryboard(lib, yo, jo) ==
    IF jo.kind = "error"
    THEN [error    |-> "Invalid JSON returned by OpenAI",
          warnings |-> YamlWarnings(lib, yo)]
    ELSE IF jo.kind = "null"
    THEN [error    |-> "TypeError",
          warnings |-> YamlWarnings(lib, yo) \cup DifferWarnings(lib, yo, jo)]
    ELSE [error    |-> "",
          warnings |-> YamlWarnings(lib, yo) \cup DifferWarnings(lib, yo, jo)
                       \cup (IF DurationWarning(jo)
                             THEN {"totalDurationSec does not match"}
                             ELSE {})]

----------------------------------------------------------------------------
(* Files.  A path is the sequence of its components below the output       *)
(* directory; <<>> is the output directory itself.                         *)

YamlPath    == <<"storyboard.yaml">>
JsonPath    == <<"storyboard.json">>
VideoPath   == <<"Video.tsx">>
SummaryPath == <<"EXEC_SUMMARY.txt">>
VoiceDir    == <<"public", "voiceovers">>
VoicePath(id) == VoiceDir \o <<id \o ".mp3">>

\* fs.writeFileSync
WriteFile(files, path, content) ==
    [p \in DOMAIN files \cup {path} |-> IF p = path THEN content ELSE files[p]]

\* fs.mkdirSync(path, {recursive: true})
MkDir(ds, path) == ds \cup { SubSeq(path, 1, k) : k \in 0..Len(path) }

DEFAULT_VIDEO_ID ==
    <<"g", "e", "n", "e", "r", "a", "t", "e", "d", "-", "v", "i", "d", "e", "o">>

\* Lines 250, 291 and 303: the identifier of the exported component.
ComponentName(meta) ==
    camelCase(IF meta.videoId = <<>> THEN DEFAULT_VIDEO_ID ELSE meta.videoId)

\* The text of Video.tsx, reduced to its two export lines (291 and 303).
VideoTsx(meta) ==
    <<"export const ">> \o ComponentName(meta) \o <<": React.FC\n">>
    \o <<"export default ">> \o ComponentName(meta) \o <<";\n">>

\* WritePlaceholders that stops after the first slide.
WritePlaceholdersFirstOnly(files, slides) ==
    IF slides = <<>> THEN files
    ELSE WriteFile(files, VoicePath(Head(slides).id), <<>>)

\* Lines 339-345: one empty file per slide, written in order.
RECURSIVE WritePlaceholders(_, _)
WritePlaceholders(files, slides) ==
    IF slides = <<>> THEN files
    ELSE WritePlaceholders(WriteFile(files, VoicePath(Head(slides).id), <<>>),
                           Tail(slides))

----------------------------------------------------------------------------
(* The inputs of a run.                                                    *)

SampleArgvs ==
    { <<"--input", "research.md", "--output", "out">>,
      <<"--output", "out", "--input", "research.md">>,
      <<"--input", "research.md">>,
      <<"--output", "out">>,
      <<"--help">>,
      <<>> }

SampleTexts == { <<"x">>, <<"$", "&">> }

\* Research texts made of at most MaxResearch pieces: the characters with a
\* meaning in a replacement text, a plain letter, and the placeholder token.
ResearchPieces ==
    { <<"$">>, <<"&">>, <<BACKTICK>>, <<APOSTROPHE>>, <<"x">>, PLACEHOLDER }
ResearchTexts == { Flatten(ps) : ps \in SeqsUpTo(ResearchPieces, MaxResearch) }

\* A reply: text, a YAML block, text, a JSON block, text.
Block(open, inner) == open \o inner \o FENCE
Reply(pre, yamlBlock, mid, jsonBlock, post) ==
    pre \o yamlBlock \o mid \o jsonBlock \o post

SampleReplies ==
    { Reply(<<"H", "i", "\n">>, Block(YAML_OPEN, <<"y", "\n">>), <<"\n">>,
            Block(JSON_OPEN, <<"{", "}", "\n">>), post)
        : post \in { <<>>, <<"\n", "|", "i", "d", "|", "\n">> } }
    \cup
    { Reply(<<>>, Block(YAML_OPEN, <<"y", "\n">>), <<>>, <<>>, <<"s">>),
      Reply(<<>>, <<>>, <<>>, Block(JSON_OPEN, <<"{", "}", "\n">>), <<>>),
      Reply(<<"s", "o", "r", "r", "y">>, <<>>, <<>>, <<>>, <<>>) }

\* Replies in which one block holds any text of at most MaxInner characters
\* and the other a sample text, in both orders, and replies in which a block
\* is missing or is not closed.
InnerTexts  == SeqsUpTo({"a", "\n", BACKTICK}, MaxInner)
SampleInner == { <<"{", "}">>, <<"\n", "{", "\n", "\n", "}", "\n">> }
Summaries   == { <<>>, <<"\n", "s", " ">> }
FencedReplies ==
    { Reply(<<>>, Block(YAML_OPEN, y), <<"\n">>, Block(JSON_OPEN, j), post)
        : y \in InnerTexts, j \in SampleInner, post \in Summaries }
    \cup
    { Reply(<<>>, Block(YAML_OPEN, y), <<"\n">>, Block(JSON_OPEN, j), post)
        : y \in SampleInner, j \in InnerTexts, post \in Summaries }
    \cup
    { Reply(<<"p">>, Block(JSON_OPEN, j), <<>>, Block(YAML_OPEN, y), <<>>)
        : y \in InnerTexts, j \in SampleInner }
    \cup
    { Reply(<<>>, Block(YAML_OPEN, y), <<>>, JSON_OPEN \o y, <<>>) : y \in InnerTexts }
    \cup
    { Reply(<<>>, YAML_OPEN \o y, <<>>, <<>>, <<>>) : y \in InnerTexts }

SampleVideoIds == { <<>>, <<"m", "y", "-", "v", "i", "d">> }
VideoIds       == SeqsUpTo({"a", "3", "-", "\n"}, MaxIdLen)
SlideLists     == SeqsUpTo(Slide, MaxSlides)
OneSlideList   == { << [id |-> "intro", durationSec |-> 1] >> }
OneArgv        == { <<"--input", "research.md", "--output", "out">> }

\* Every command line of at most MaxArgs arguments over the two options,
\* the two help flags and a plain word.
ArgTokens == {"--input", "--output", "--help", "-h", "f"}
ArgLists  == SeqsUpTo(ArgTokens, MaxArgs)

\* A storyboard with nothing missing, and the parse error.
PlainStoryboard ==
    [kind   |-> "object",
     meta   |-> << [totalDurationSec |-> <<1>>, videoId |-> <<"v">>] >>,
     slides |-> << << [id |-> "intro", durationSec |-> 1] >> >>]
PlainOutcomes == {JsonError, PlainStoryboard}

----------------------------------------------------------------------------
(* The run.                                                                *)

InitWith(argvs) ==
    /\ pc = "start"
    /\ exitCode = <<>>
    /\ err = ""
    /\ usage = FALSE
    /\ argv \in argvs
    /\ input = <<>>
    /\ output = <<>>
    /\ apiKeySet \in BOOLEAN
    /\ yamlLib \in BOOLEAN
    /\ networkCalls = 0
    /\ httpStatus = 0
    /\ research = <<>>
    /\ prompt = <<>>
    /\ responseText = <<>>
    /\ yamlStr = <<>>
    /\ jsonStr = <<>>
    /\ summary = <<>>
    /\ jsonObj = JsonNone
    /\ warnings = {}
    /\ dirs = {}
    /\ fs = <<>>
    /\ runs = 0

\* An Error thrown inside main: the promise rejects, the catch handler of
\* lines 384-387 prints the error and exits with status 1.
Throw(e) ==
    /\ pc' = "exited"
    /\ exitCode' = <<1>>
    /\ err' = e

\* Line 350.
ParseArgs ==
    /\ pc = "start"
    /\ LET r == parseArgs(argv)
       IN  IF r.exit = "usage"
           THEN /\ usage' = TRUE
                /\ pc' = "exited"
                /\ exitCode' = <<0>>
                /\ UNCHANGED << err, input, output >>
           ELSE IF r.exit = "throw"
           THEN /\ Throw(r.error)
                /\ UNCHANGED << usage, input, output >>
           ELSE /\ input' = r.input
                /\ output' = r.output
                /\ pc' = "args"
                /\ UNCHANGED << usage, exitCode, err >>
    /\ UNCHANGED << argv, apiKeySet, yamlLib, networkCalls, httpStatus, research,
                    prompt, responseText, yamlStr, jsonStr, summary, jsonObj,
                    warnings, dirs, fs, runs >>

\* Lines 352-356: the output directory is created, the input file is read
\* (it may not be readable) and the prompt is composed.
ReadResearch(texts) ==
    /\ pc = "args"
    /\ dirs' = MkDir(dirs, <<>>)
    /\ \/ /\ Throw("ENOENT")
          /\ UNCHANGED << research, prompt >>
       \/ \E text \in texts :
             /\ research' = text
             /\ prompt' = ComposePrompt(text)
             /\ pc' = "composed"
             /\ UNCHANGED << exitCode, err >>
    /\ UNCHANGED << usage, argv, input, output, apiKeySet, yamlLib, networkCalls,
                    httpStatus, responseText, yamlStr, jsonStr, summary, jsonObj,
                    warnings, fs, runs >>

\* CallOpenAI with the request issued before the credential is looked at.
CallOpenAIRequestFirst ==
    /\ pc = "composed"
    /\ networkCalls' = networkCalls + 1
    /\ IF ~apiKeySet
       THEN Throw("OPENAI_API_KEY environment variable is not set")
       ELSE /\ pc' = "fetching"
            /\ UNCHANGED << exitCode, err >>
    /\ UNCHANGED << usage, argv, input, output, apiKeySet, yamlLib, httpStatus,
                    research, prompt, responseText, yamlStr, jsonStr, summary,
                    jsonObj, warnings, dirs, fs, runs >>

\* Lines 126-146: the credential check, then the request is issued.
CallOpenAI ==
    /\ pc = "composed"
    /\ IF ~apiKeySet
       THEN /\ Throw("OPENAI_API_KEY environment variable is not set")
            /\ UNCHANGED networkCalls
       ELSE /\ networkCalls' = networkCalls + 1
            /\ pc' = "fetching"
            /\ UNCHANGED << exitCode, err >>
    /\ UNCHANGED << usage, argv, input, output, apiKeySet, yamlLib, httpStatus,
                    research, prompt, responseText, yamlStr, jsonStr, summary,
                    jsonObj, warnings, dirs, fs, runs >>

\* FetchResponds with one more attempt after a response that is not ok.
FetchRespondsRetry(replies) ==
    /\ pc = "fetching"
    /\ \/ /\ Throw("fetch failed")
          /\ UNCHANGED << httpStatus, responseText >>
       \/ \E status \in {401, 429, 500} :
             /\ httpStatus' = status
             /\ IF networkCalls < 2
                THEN /\ pc' = "composed"
                     /\ UNCHANGED << exitCode, err >>
                ELSE Throw("OpenAI API error")
             /\ UNCHANGED responseText
       \/ \E reply \in replies :
             /\ httpStatus' = 200
             /\ responseText' = reply
             /\ pc' = "received"
             /\ UNCHANGED << exitCode, err >>
    /\ UNCHANGED << usage, argv, input, output, apiKeySet, yamlLib, networkCalls,
                    research, prompt, yamlStr, jsonStr, summary, jsonObj,
                    warnings, dirs, fs, runs >>

\* Lines 146-153: the request fails, or a response arrives; a response that
\* is not ok is an Error, an ok response yields the reply text.
FetchResponds(replies) ==
    /\ pc = "fetching"
    /\ \/ /\ Throw("fetch failed")
          /\ UNCHANGED << httpStatus, responseText >>
       \/ \E status \in {401, 429, 500} :
             /\ httpStatus' = status
             /\ Throw("OpenAI API error")
             /\ UNCHANGED responseText
       \/ \E reply \in replies :
             /\ httpStatus' = 200
             /\ responseText' = reply
             /\ pc' = "received"
             /\ UNCHANGED << exitCode, err >>
    /\ UNCHANGED << usage, argv, input, output, apiKeySet, yamlLib, networkCalls,
                    research, prompt, yamlStr, jsonStr, summary, jsonObj,
                    warnings, dirs, fs, runs >>

\* Line 360.
ExtractBlocks ==
    /\ pc = "received"
    /\ LET r == extractBlocks(responseText)
       IN  IF r.error # ""
           THEN /\ Throw(r.error)
                /\ UNCHANGED << yamlStr, jsonStr, summary >>
           ELSE /\ yamlStr' = r.yaml
                /\ jsonStr' = r.json
                /\ summary' = r.summary
                /\ pc' = "extracted"
                /\ UNCHANGED << exitCode, err >>
    /\ UNCHANGED << usage, argv, input, output, apiKeySet, yamlLib, networkCalls,
                    httpStatus, research, prompt, responseText, jsonObj,
                    warnings, dirs, fs, runs >>

\* Lines 362-365.
WriteStoryboardFiles ==
    /\ pc = "extracted"
    /\ fs' = WriteFile(WriteFile(fs, YamlPath, yamlStr), JsonPath, jsonStr)
    /\ pc' = "written"
    /\ UNCHANGED << exitCode, err, usage, argv, input, output, apiKeySet, yamlLib,
                    networkCalls, httpStatus, research, prompt, responseText,
                    yamlStr, jsonStr, summary, jsonObj, warnings, dirs, runs >>

\* Line 368.  What the two parsers make of the texts is drawn from the
\* outcomes they can have; jsonObj is assigned unless JSON.parse throws.
ValidateStoryboard(jsonOutcomes) ==
    /\ pc = "written"
    /\ \E yo \in (IF yamlLib THEN YamlOutcomes ELSE {"falsy"}), jo \in jsonOutcomes :
          LET r == validateStoryboard(yamlLib, yo, jo)
          IN  /\ warnings' = warnings \cup r.warnings
              /\ jsonObj' = IF jo.kind = "error" THEN jsonObj ELSE jo
              /\ IF r.error # ""
                 THEN Throw(r.error)
                 ELSE /\ pc' = "validated"
                      /\ UNCHANGED << exitCode, err >>
    /\ UNCHANGED << usage, argv, input, output, apiKeySet, yamlLib, networkCalls,
                    httpStatus, research, prompt, responseText, yamlStr, jsonStr,
                    summary, dirs, fs, runs >>

\* writeVideoTsx with the missing meta field thrown instead of printed.
WriteVideoTsxStrict ==
    /\ pc = "validated"
    /\ IF jsonObj.meta = <<>>
       THEN /\ Throw("No meta field in storyboard")
            /\ UNCHANGED fs
       ELSE /\ fs' = WriteFile(fs, VideoPath, VideoTsx(jsonObj.meta[1]))
            /\ pc' = "tsx"
            /\ UNCHANGED << exitCode, err >>
    /\ UNCHANGED << usage, argv, input, output, apiKeySet, yamlLib,
                    networkCalls, httpStatus, research, prompt, responseText,
                    yamlStr, jsonStr, summary, jsonObj, warnings, dirs, runs >>

\* Line 370 (writeVideoTsx, lines 243-308).
WriteVideoTsx ==
    /\ pc = "validated"
    /\ IF jsonObj.meta = <<>>
       THEN /\ warnings' = warnings \cup {"No meta field in storyboard"}
            /\ UNCHANGED fs
       ELSE /\ fs' = WriteFile(fs, VideoPath, VideoTsx(jsonObj.meta[1]))
            /\ UNCHANGED warnings
    /\ pc' = "tsx"
    /\ UNCHANGED << exitCode, err, usage, argv, input, output, apiKeySet, yamlLib,
                    networkCalls, httpStatus, research, prompt, responseText,
                    yamlStr, jsonStr, summary, jsonObj, dirs, runs >>

\* Line 372 (createVoiceoverPlaceholders, lines 336-347): without a slides
\* array, forEach is called on undefined after the directory was created.
CreateVoiceoverPlaceholders ==
    /\ pc = "tsx"
    /\ dirs' = MkDir(dirs, VoiceDir)
    /\ IF jsonObj.slides = <<>>
       THEN /\ Throw("TypeError")
            /\ UNCHANGED << fs, runs >>
       ELSE /\ fs' = WritePlaceholders(fs, jsonObj.slides[1])
            /\ runs' = runs + 1
            /\ pc' = "voice"
            /\ UNCHANGED << exitCode, err >>
    /\ UNCHANGED << usage, argv, input, output, apiKeySet, yamlLib, networkCalls,
                    httpStatus, research, prompt, responseText, yamlStr, jsonStr,
                    summary, jsonObj, warnings >>

\* Lines 374-380: the summary file, then main returns and the process ends
\* with status 0.
WriteSummary ==
    /\ pc = "voice"
    /\ fs' = IF summary # <<>> THEN WriteFile(fs, SummaryPath, Trim(summary)) ELSE fs
    /\ pc' = "exited"
    /\ exitCode' = <<0>>
    /\ UNCHANGED << err, usage, argv, input, output, apiKeySet, yamlLib,
                    networkCalls, httpStatus, research, prompt, responseText,
                    yamlStr, jsonStr, summary, jsonObj, warnings, dirs, runs >>

\* The tool is run again with the same arguments, input file, reply and
\* output directory: the second run arrives at createVoiceoverPlaceholders
\* with the same storyboard and with the files of the first run in place.
RunAgain ==
    /\ pc = "exited"
    /\ exitCode = <<0>>
    /\ ~usage
    /\ runs < MaxRuns
    /\ pc' = "tsx"
    /\ exitCode' = <<>>
    /\ UNCHANGED << err, usage, argv, input, output, apiKeySet, yamlLib,
                    networkCalls, httpStatus, research, prompt, responseText,
                    yamlStr, jsonStr, summary, jsonObj, warnings, dirs, fs, runs >>

----------------------------------------------------------------------------
(* Specifications: the same run, over different sets of inputs.            *)

\* Every kind of argument list, reply and storyboard.
Init == InitWith(SampleArgvs)
Next ==
    \/ ParseArgs
    \/ ReadResearch(SampleTexts)
    \/ CallOpenAI
    \/ FetchResponds(SampleReplies)
    \/ ExtractBlocks
    \/ WriteStoryboardFiles
    \/ ValidateStoryboard({JsonError} \cup Storyboards(SampleVideoIds, SlideLists))
    \/ WriteVideoTsx
    \/ CreateVoiceoverPlaceholders
    \/ WriteSummary
Spec == Init /\ [][Next]_vars

InitOne == InitWith(OneArgv)

\* Every research text.
NextPrompt ==
    \/ ParseArgs
    \/ ReadResearch(ResearchTexts)
    \/ CallOpenAI
    \/ FetchResponds(SampleReplies)
    \/ ExtractBlocks
    \/ WriteStoryboardFiles
    \/ ValidateStoryboard(PlainOutcomes)
    \/ WriteVideoTsx
    \/ CreateVoiceoverPlaceholders
    \/ WriteSummary
SpecPrompt == InitOne /\ [][NextPrompt]_vars

\* Every fenced reply.
NextExtract ==
    \/ ParseArgs
    \/ ReadResearch({<<"x">>})
    \/ CallOpenAI
    \/ FetchResponds(FencedReplies)
    \/ ExtractBlocks
    \/ WriteStoryboardFiles
    \/ ValidateStoryboard(PlainOutcomes)
    \/ WriteVideoTsx
    \/ CreateVoiceoverPlaceholders
    \/ WriteSummary
SpecExtract == InitOne /\ [][NextExtract]_vars

\* Every videoId.
NextVideo ==
    \/ ParseArgs
    \/ ReadResearch({<<"x">>})
    \/ CallOpenAI
    \/ FetchResponds(SampleReplies)
    \/ ExtractBlocks
    \/ WriteStoryboardFiles
    \/ ValidateStoryboard({JsonError} \cup Storyboards(VideoIds, OneSlideList))
    \/ WriteVideoTsx
    \/ CreateVoiceoverPlaceholders
    \/ WriteSummary
SpecVideo == InitOne /\ [][NextVideo]_vars

\* Every list of slides, the tool being run up to MaxRuns times.
NextAgain ==
    \/ ParseArgs
    \/ ReadResearch({<<"x">>})
    \/ CallOpenAI
    \/ FetchResponds(SampleReplies)
    \/ ExtractBlocks
    \/ WriteStoryboardFiles
    \/ ValidateStoryboard({JsonError} \cup Storyboards({<<>>}, SlideLists))
    \/ WriteVideoTsx
    \/ CreateVoiceoverPlaceholders
    \/ WriteSummary
    \/ RunAgain
SpecAgain == InitOne /\ [][NextAgain]_vars

\* Every command line.
InitArgs == InitWith(ArgLists)
NextArgs ==
    \/ ParseArgs
    \/ ReadResearch({<<"x">>})
    \/ CallOpenAI
    \/ FetchResponds(SampleReplies)
    \/ ExtractBlocks
    \/ WriteStoryboardFiles
    \/ ValidateStoryboard(PlainOutcomes)
    \/ WriteVideoTsx
    \/ CreateVoiceoverPlaceholders
    \/ WriteSummary
SpecArgs == InitArgs /\ [][NextArgs]_vars

----------------------------------------------------------------------------
(* Properties.                                                             *)

Artifacts == DOMAIN fs
PlaceholderFiles == { p \in DOMAIN fs : Len(p) = 3 /\ SubSeq(p, 1, 2) = VoiceDir }

\* C1: a run whose JSON block fails to parse has written no artifact, neither
\* when the error is raised nor afterwards.
C1_NoArtifactBeforeParseError ==
    err = "Invalid JSON returned by OpenAI" => Artifacts = {}

\* C2: the composed prompt contains the research text exactly once and no
\* longer contains the placeholder token.
C2_PromptHoldsResearchOnce ==
    (prompt # <<>> /\ research # <<>>) =>
        /\ Cardinality(Occurrences(prompt, research)) = 1
        /\ Occurrences(prompt, PLACEHOLDER) = {}

\* A reply holds a fenced block of a tag when the tag is followed, at least
\* one character later, by a closing fence.
HasBlock(reply, open) ==
    \E i \in Occurrences(reply, open) :
        \E j \in Occurrences(reply, FENCE) : j > i + Len(open)

\* C3: when the reply holds no JSON block, with or without a YAML block,
\* extractBlocks fails, the run exits with a non-zero status, and no file
\* has been written.
C3_NoJsonBlockNoFiles ==
    (httpStatus = 200 /\ ~HasBlock(responseText, JSON_OPEN)) =>
        /\ Artifacts = {}
        /\ pc \in {"received", "exited"}
        /\ pc = "exited" =>
              /\ exitCode = <<1>>
              /\ err \in {"Unable to find YAML block in response",
                          "Unable to find JSON block in response"}

\* A run exits on a missing JSON block although the reply holds a YAML block.
C3_Witness ==
    /\ pc = "exited"
    /\ httpStatus = 200
    /\ HasBlock(responseText, YAML_OPEN)
    /\ ~HasBlock(responseText, JSON_OPEN)
    /\ err = "Unable to find JSON block in response"

\* C4: with the credential unset, a run whose arguments are valid and whose
\* input file was read fails with the configuration error, exits non-zero,
\* and has issued no network request.
C4_NoKeyNoRequest ==
    ~apiKeySet =>
        /\ networkCalls = 0
        /\ pc \in {"start", "args", "composed", "exited"}
        /\ (pc = "exited" /\ prompt # <<>>) =>
              /\ exitCode = <<1>>
              /\ err = "OPENAI_API_KEY environment variable is not set"

\* A run has read its input and ended on the missing credential.
C4_Witness ==
    /\ ~apiKeySet
    /\ pc = "exited"
    /\ prompt # <<>>
    /\ err = "OPENAI_API_KEY environment variable is not set"

\* The declared total is present and is not the sum of the slide durations.
DurationsDiffer(obj) ==
    /\ obj.meta # <<>>
    /\ obj.slides # <<>>
    /\ obj.meta[1].totalDurationSec # <<>>
    /\ obj.meta[1].totalDurationSec[1] # SumDurations(obj.slides[1])

\* C5: for a storyboard with meta and slides, the duration warning is printed
\* exactly when the declared total is present and differs from the sum of
\* the slide durations, a declared total of 0 included.
C5_WarningIffDurationsDiffer ==
    (jsonObj.kind = "object" /\ jsonObj.meta # <<>> /\ jsonObj.slides # <<>>) =>
        ("totalDurationSec does not match" \in warnings <=> DurationsDiffer(jsonObj))

\* The identifier that follows "export const " in the text of Video.tsx.
EmbeddedName ==
    LET text == fs[VideoPath]
        stop == CHOOSE i \in 1..Len(text) : text[i] = ": React.FC\n"
    IN  SubSeq(text, 2, stop - 1)

ValidIdentifier(name) ==
    /\ name # <<>>
    /\ name[1] \in UpperCase
    /\ \A i \in 1..Len(name) : name[i] \in AlphaNum

\* C6: for every videoId, the identifier embedded in Video.tsx is a valid
\* identifier: not empty, led by an upper-case letter, alphanumeric throughout.
C6_IdentifierIsValid ==
    VideoPath \in Artifacts => ValidIdentifier(EmbeddedName)

JsonParsed == jsonObj.kind \in {"object", "null"}
HasSlides  == jsonObj.kind = "object" /\ jsonObj.slides # <<>>

\* A consistency check of validateStoryboard has failed.
ChecksFailed ==
    \/ "Failed to parse YAML" \in warnings
    \/ "YAML and JSON differ after normalisation" \in warnings
    \/ DurationsDiffer(jsonObj)

\* Every artifact that the storyboard calls for is in the output directory.
AllArtifacts ==
    /\ YamlPath \in Artifacts
    /\ JsonPath \in Artifacts
    /\ jsonObj.meta # <<>> => VideoPath \in Artifacts
    /\ jsonObj.slides # <<>> =>
          \A i \in 1..Len(jsonObj.slides[1]) :
              VoicePath(jsonObj.slides[1][i].id) \in Artifacts

InnerText(reply, open) ==
    LET i == IndexOf(reply, open, 1)
        j == IndexOf(reply, FENCE, i + Len(open))
    IN  Slice(reply, i + Len(open), j - 1)

TrimmedOf(group, text) ==
    \E a \in 1..(Len(group) + 1) : \E b \in 0..Len(group) :
        /\ text = Slice(group, a, b)
        /\ \A k \in 1..Len(group) : (k < a \/ k > b) => group[k] \in WhiteSpace
        /\ text # <<>> => (text[1] \notin WhiteSpace /\ text[Len(text)] \notin WhiteSpace)

\* text is, white space at its ends apart, what stands between the first
\* opening tag and the first closing fence at least one character after it.
HoldsBlockOf(reply, open, text) ==
    \E i \in Occurrences(reply, open) : \E j \in Occurrences(reply, FENCE) :
        /\ \A i2 \in Occurrences(reply, open) : i <= i2
        /\ j > i + Len(open)
        /\ \A j2 \in Occurrences(reply, FENCE) : j2 > i + Len(open) => j <= j2
        /\ TrimmedOf(Slice(reply, i + Len(open), j - 1), text)

SlideIdsOf(obj) == { obj.slides[1][i].id : i \in 1..Len(obj.slides[1]) }

\* C9, as claimed: after createVoiceoverPlaceholders has run, once or twice,
\* there are as many placeholder files as slides, each of them empty.
C9_OnePlaceholderPerSlide ==
    (runs >= 1 /\ pc # "tsx") =>
        /\ Cardinality(PlaceholderFiles) = Len(jsonObj.slides[1])
        /\ \A p \in PlaceholderFiles : fs[p] = <<>>

\* C9, amended: after createVoiceoverPlaceholders has run, once or more, the
\* placeholder files are the empty files named after the slide ids, one per
\* distinct id, and a further run leaves the same set.
C9_OnePlaceholderPerSlideId ==
    runs >= 1 =>
        /\ PlaceholderFiles = { VoicePath(id) : id \in SlideIdsOf(jsonObj) }
        /\ Cardinality(PlaceholderFiles) = Cardinality(SlideIdsOf(jsonObj))
        /\ \A p \in PlaceholderFiles : fs[p] = <<>>

\* The emitter has run twice on two slides that carry the same id.
C9_Witness ==
    /\ runs = 2
    /\ pc = "exited"
    /\ Len(jsonObj.slides[1]) = 2
    /\ Cardinality(PlaceholderFiles) = 1

HelpFlags == {"--help", "-h"}

\* The run has ended on the usage message: status zero, and neither a
\* directory, a file nor a request has been made.
UsageExit ==
    /\ pc = "exited"
    /\ usage
    /\ exitCode = <<0>>
    /\ err = ""
    /\ dirs = {}
    /\ fs = <<>>
    /\ networkCalls = 0

\* C11 as stated: whenever the argument list holds a help flag, at whatever
\* position, the run ends on the usage message with status zero and without
\* any file or network I/O.
C11_HelpAnywhereShortCircuits ==
    (pc # "start" /\ \E i \in 1..Len(argv) : argv[i] \in HelpFlags) => UsageExit

\* Argument i is the value of an option: the argument before it is --input
\* or --output and is not itself the value of an option.
RECURSIVE IsValue(_, _)
IsValue(args, i) ==
    /\ i > 1
    /\ args[i - 1] \in {"--input", "--output"}
    /\ ~IsValue(args, i - 1)

\* The first help flag that is not the value of an option, 0 when none.
FirstHelp(args) ==
    LET S == { i \in 1..Len(args) : args[i] \in HelpFlags /\ ~IsValue(args, i) }
    IN  IF S = {} THEN 0 ELSE CHOOSE i \in S : \A k \in S : i <= k

\* C11, amended: the run ends on the usage message, with status zero and
\* without any file or network I/O, exactly when the argument list holds a
\* help flag that is not the value of an --input or --output option,
\* whatever the other arguments are; a help flag that follows such an option
\* is taken as its value and does not short-circuit.
C11_HelpFlagShortCircuits ==
    pc # "start" =>
        /\ FirstHelp(argv) # 0 => UsageExit
        /\ FirstHelp(argv) = 0 => ~usage

\* The usage exit of a command line whose help flag comes after an option
\* and its value, the other option missing.
C11_Witness ==
    /\ UsageExit
    /\ Len(argv) >= 3
    /\ argv[1] = "--output"
    /\ argv[3] \in HelpFlags
    /\ \A i \in 1..Len(argv) : argv[i] # "--input"

\* The request has been answered with a status that is not a success.
RequestRefused == httpStatus \notin {0, 200}

\* At most one request; a refused request has ended the run with the
\* service error and status one; no file exists unless the request succeeded.
OneRequestNoArtifact ==
    /\ networkCalls <= 1
    /\ RequestRefused =>
          /\ pc = "exited"
          /\ exitCode = <<1>>
          /\ err = "OpenAI API error"
    /\ httpStatus # 200 => Artifacts = {}

\* Once a request has been issued no other is, and an answer is final.
NoRetry ==
    /\ networkCalls = 1 => networkCalls' = 1
    /\ httpStatus # 0 => httpStatus' = httpStatus

\* C12: every run issues at most one request to the completion service and
\* never retries it; when the request returns a non-success HTTP status the
\* run fails with the service error and exits non-zero; and no artifact file
\* is ever written in a run whose request did not succeed.
C12_OneRequestNoArtifactOnFailure == []OneRequestNoArtifact /\ [][NoRetry]_vars

\* A run has ended on a refused request.
C12_Witness ==
    /\ pc = "exited"
    /\ networkCalls = 1
    /\ httpStatus = 500
    /\ exitCode = <<1>>
    /\ err = "OpenAI API error"

====
